---- MODULE Spec2Model ----
(***************************************************************************)
(* CattoPic worker: the single-file upload pipeline (uploadSingleHandler), *)
(* the random retrieval pipeline (randomHandler) and the expiry sweep      *)
(* (cleanupHandler), as concurrent request handlers over one object store  *)
(* (R2) and one metadata store (D1).  Every await of the handlers is a     *)
(* suspension point: the I/O it waits for completes in a separate step.    *)
(* A run holds one upload request, one retrieval request and one cleanup   *)
(* request, interleaved at their suspension points; any I/O may fail, up   *)
(* to MaxFaults times in a run.                                            *)
(***************************************************************************)
EXTENDS Integers, Sequences, FiniteSets, TLC

\* ---------------------------------------------------------------- bounds
MaxTime == 2
MaxFaults == 1

\* ------------------------------------------------------------- constants
MAX_FILE_SIZE == 70 * 1024 * 1024
CLOUDFLARE_IMAGES_MAX_BYTES == 10 * 1024 * 1024

\* the upload requests of a run, named by the id generateImageId gives them
Uploads == {1}
Formats == {"jpeg", "png", "gif", "webp", "avif"}
Orientations == {"landscape", "portrait"}
\* file sizes at and just above the transform limit
FileSizes == {CLOUDFLARE_IMAGES_MAX_BYTES, CLOUDFLARE_IMAGES_MAX_BYTES + 1}
ExpiryChoices == {0, 1}
\* the Content-Length header: absent, at the limit, above it
ContentLengths == {{}, {MAX_FILE_SIZE}, {MAX_FILE_SIZE + 1}}
\* what a request can carry, the invalid cases included
UploadRequests ==
    [contentLength : ContentLengths, formParses : BOOLEAN, hasFile : BOOLEAN,
     size : FileSizes \cup {MAX_FILE_SIZE + 1}, format : Formats \cup {"bmp"}]

\* the empty string '' of a path slot or of a URL
Empty == <<>>

VARIABLES
    objects,      \* keys present in the R2 bucket
    images,       \* rows of the D1 images table
    hasImages,    \* c.env.IMAGES is bound (a transcoder is configured)
    now,          \* wall clock, in minutes
    faults,       \* number of I/O failures injected so far
    up,           \* per upload request: the handler's locals and its I/O in flight
    rnd,          \* the retrieval request: the handler's locals and its response
    sweep         \* the cleanup request: the handler's locals and its response

vars == <<objects, images, hasImages, now, faults, up, rnd, sweep>>

\* ------------------------------------------------------ external services

\* StorageService.generatePaths: one location per variant, disjoint between ids
generatePaths(id, orientation, format) ==
    [original |-> <<id, "original">>, webp |-> <<id, "webp">>, avif |-> <<id, "avif">>]

\* size of the bytes CompressionService.compress returns for a target
CompressedSize(target) == IF target = "webp" THEN 3072 ELSE 2048

\* what compress() can resolve to: each target either omitted (0) or produced
CompressionResults ==
    [webp : {0, CompressedSize("webp")}, avif : {0, CompressedSize("avif")}]

\* --------------------------------------------------------------- upload

IdleUpload ==
    [pc |-> "idle", format |-> "jpeg", size |-> 0, orientation |-> "landscape",
     generateWebp |-> TRUE, generateAvif |-> TRUE, expiryMinutes |-> 0,
     generatedPaths |-> generatePaths(0, "landscape", "jpeg"),
     paths |-> [original |-> Empty, webp |-> Empty, avif |-> Empty],
     webpSize |-> 0, avifSize |-> 0,
     originalUpload |-> "none", compression |-> "none",
     compressionResult |-> [webp |-> 0, avif |-> 0],
     webpUpload |-> "none", avifUpload |-> "none",
     saveImage |-> "none", imageMetadata |-> <<>>,
     invalidation |-> "none", response |-> "none",
     contentLength |-> {}, formParses |-> TRUE, hasFile |-> TRUE,
     bodyRead |-> FALSE, error |-> "none"]

\* variant: webp sources are sent to the transcoder
shouldSkipProcessing_NoWebp(format) == format \in {"gif", "avif"}

shouldSkipProcessing(format) == format \in {"gif", "webp", "avif"}

\* variant: a file of exactly the limit is not transcoded
UsesCompression_Strict(compression, size) ==
    compression /\ size < CLOUDFLARE_IMAGES_MAX_BYTES

\* upload.ts:101, the guard of the transcoding branch
UsesCompression(compression, size) ==
    compression /\ size <= CLOUDFLARE_IMAGES_MAX_BYTES

\* upload.ts:148-172, the row built from the handler's locals
BuildMetadata(u, s) ==
    [id |-> u,
     expiryTime |-> IF s.expiryMinutes > 0 THEN {now + s.expiryMinutes} ELSE {},
     orientation |-> s.orientation,
     format |-> s.format,
     paths |-> s.paths,
     sizes |-> [original |-> s.size, webp |-> s.webpSize, avif |-> s.avifSize]]

\* upload.ts:148-174: build the row and issue metadata.saveImage
IssueSave(u, s) ==
    [s EXCEPT !.pc = "awaitSave", !.saveImage = "pending",
              !.imageMetadata = BuildMetadata(u, s)]

\* upload.ts:208-211, the catch of the whole handler
Fail(s) == [s EXCEPT !.pc = "done", !.response = "failed"]

\* ImageProcessor.isSupportedFormat
isSupportedFormat(format) == format \in Formats

\* variant: the form is parsed before the declared length is looked at
Validate_ParseFirst(request) ==
    IF ~request.formParses
    THEN [error |-> "Failed to parse form data", bodyRead |-> TRUE]
    ELSE IF \E n \in request.contentLength : n > MAX_FILE_SIZE
    THEN [error |-> "File too large", bodyRead |-> TRUE]
    ELSE IF ~request.hasFile
    THEN [error |-> "No file provided", bodyRead |-> TRUE]
    ELSE IF request.size > MAX_FILE_SIZE
    THEN [error |-> "File too large", bodyRead |-> TRUE]
    ELSE IF ~isSupportedFormat(request.format)
    THEN [error |-> "Unsupported format", bodyRead |-> TRUE]
    ELSE [error |-> "none", bodyRead |-> TRUE]

\* upload.ts:23-71: the early returns of the handler, in their order, and
\* whether c.req.formData() was called before the return
Validate(request) ==
    IF \E n \in request.contentLength : n > MAX_FILE_SIZE
    THEN [error |-> "File too large", bodyRead |-> FALSE]
    ELSE IF ~request.formParses
    THEN [error |-> "Failed to parse form data", bodyRead |-> TRUE]
    ELSE IF ~request.hasFile
    THEN [error |-> "No file provided", bodyRead |-> TRUE]
    ELSE IF request.size > MAX_FILE_SIZE
    THEN [error |-> "File too large", bodyRead |-> TRUE]
    ELSE IF ~isSupportedFormat(request.format)
    THEN [error |-> "Unsupported format", bodyRead |-> TRUE]
    ELSE [error |-> "none", bodyRead |-> TRUE]

\* upload.ts:23-71: a request that fails validation is answered at once
UploadReject(u) ==
    /\ up[u].pc = "idle"
    /\ \A v \in Uploads : v < u => up[v].pc # "idle"
    /\ \E request \in UploadRequests :
          /\ Validate(request).error # "none"
          /\ up' = [up EXCEPT ![u] =
                      [@ EXCEPT !.pc = "done", !.response = "rejected",
                                !.contentLength = request.contentLength,
                                !.formParses = request.formParses,
                                !.hasFile = request.hasFile,
                                !.size = request.size, !.format = request.format,
                                !.bodyRead = Validate(request).bodyRead,
                                !.error = Validate(request).error]]
    /\ UNCHANGED <<objects, images, hasImages, now, faults, rnd, sweep>>

\* upload.ts:21-102: parse the request, allocate the paths, start the original
\* write and, on the transcoding branch, the transcoder
UploadBegin(u) ==
    /\ up[u].pc = "idle"
    /\ \A v \in Uploads : v < u => up[v].pc # "idle"
    /\ \E format \in Formats \cup {"bmp"}, size \in FileSizes \cup {MAX_FILE_SIZE + 1},
          orientation \in Orientations,
          generateWebp \in BOOLEAN, generateAvif \in BOOLEAN,
          expiryMinutes \in ExpiryChoices :
          LET generated == generatePaths(u, orientation, format) IN
          /\ \E contentLength \in ContentLengths :
                Validate([contentLength |-> contentLength, formParses |-> TRUE,
                          hasFile |-> TRUE, size |-> size,
                          format |-> format]).error = "none"
          /\ up' = [up EXCEPT ![u] =
                   [@ EXCEPT !.pc = "awaitOriginal", !.bodyRead = TRUE,
                             !.format = format, !.size = size,
                             !.orientation = orientation,
                             !.generateWebp = generateWebp,
                             !.generateAvif = generateAvif,
                             !.expiryMinutes = expiryMinutes,
                             !.generatedPaths = generated,
                             !.paths = [generated EXCEPT !.webp = Empty, !.avif = Empty],
                             !.originalUpload = "pending",
                             !.compression =
                                 IF ~shouldSkipProcessing(format)
                                    /\ UsesCompression(hasImages, size)
                                 THEN "pending" ELSE "none"]]
    /\ UNCHANGED <<objects, images, hasImages, now, faults, rnd, sweep>>

\* storage.upload(paths.original, ...) completes (upload.ts:87)
OriginalWritten(u) ==
    /\ up[u].originalUpload = "pending"
    /\ objects' = objects \cup {up[u].paths.original}
    /\ up' = [up EXCEPT ![u].originalUpload = "ok"]
    /\ UNCHANGED <<images, hasImages, now, faults, rnd, sweep>>

OriginalWriteFails(u) ==
    /\ up[u].originalUpload = "pending"
    /\ faults < MaxFaults
    /\ faults' = faults + 1
    /\ up' = [up EXCEPT ![u].originalUpload = "failed"]
    /\ UNCHANGED <<objects, images, hasImages, now, rnd, sweep>>

\* compression.compress(...) resolves (upload.ts:102)
CompressionReturns(u) ==
    /\ up[u].compression = "pending"
    /\ \E result \in CompressionResults :
          up' = [up EXCEPT ![u].compression = "ok", ![u].compressionResult = result]
    /\ UNCHANGED <<objects, images, hasImages, now, faults, rnd, sweep>>

CompressionRaises(u) ==
    /\ up[u].compression = "pending"
    /\ faults < MaxFaults
    /\ faults' = faults + 1
    /\ up' = [up EXCEPT ![u].compression = "raised"]
    /\ UNCHANGED <<objects, images, hasImages, now, rnd, sweep>>

\* variant: a marker alias is recorded with the size of the original
AfterOriginalNoCompression_SizedMarker(u, s) ==
    IF shouldSkipProcessing(s.format)
    THEN IssueSave(u,
            [s EXCEPT !.paths.webp = IF s.format = "webp" THEN s.paths.original ELSE @,
                      !.webpSize = IF s.format = "webp" THEN s.size ELSE @,
                      !.paths.avif = IF s.format = "avif" THEN s.paths.original ELSE @,
                      !.avifSize = IF s.format = "avif" THEN s.size ELSE @])
    ELSE IssueSave(u,
            [s EXCEPT !.paths.webp = IF s.generateWebp THEN s.paths.original ELSE @,
                      !.webpSize = IF s.generateWebp THEN s.size ELSE @,
                      !.paths.avif = IF s.generateAvif THEN s.paths.original ELSE @,
                      !.avifSize = IF s.generateAvif THEN s.size ELSE @])

\* upload.ts:91-100, 141-145: the two branches without transcoding, after
\* `await originalUploadPromise`
AfterOriginalNoCompression(u, s) ==
    IF shouldSkipProcessing(s.format)
    THEN IssueSave(u,
            [s EXCEPT !.paths.webp = IF s.format = "webp" THEN s.paths.original ELSE @,
                      !.webpSize = IF s.format = "webp" THEN s.size ELSE @,
                      !.paths.avif = IF s.format = "avif" THEN s.paths.original ELSE @,
                      !.avifSize = IF s.format = "avif" THEN s.size ELSE @])
    ELSE IssueSave(u,
            [s EXCEPT !.paths.webp = IF s.generateWebp THEN s.paths.original ELSE @,
                      !.paths.avif = IF s.generateAvif THEN s.paths.original ELSE @])

\* variant: a failed original write is not noticed by the handler
AwaitOriginal_IgnoresFailure(u) ==
    /\ up[u].pc = "awaitOriginal"
    /\ up[u].originalUpload \in {"ok", "failed"}
    /\ up' = [up EXCEPT ![u] =
                IF @.compression # "none" THEN [@ EXCEPT !.pc = "awaitCompression"]
                ELSE AfterOriginalNoCompression(u, @)]
    /\ UNCHANGED <<objects, images, hasImages, now, faults, rnd, sweep>>

\* `await originalUploadPromise` resumes (upload.ts:91, 107, 141)
AwaitOriginal(u) ==
    /\ up[u].pc = "awaitOriginal"
    /\ up[u].originalUpload \in {"ok", "failed"}
    /\ up' = [up EXCEPT ![u] =
                IF @.originalUpload = "failed" THEN Fail(@)
                ELSE IF @.compression # "none" THEN [@ EXCEPT !.pc = "awaitCompression"]
                ELSE AfterOriginalNoCompression(u, @)]
    /\ UNCHANGED <<objects, images, hasImages, now, faults, rnd, sweep>>

\* variant: no fallback, an omitted target keeps an empty slot
MarkerFallback_None(s) == s

\* upload.ts:132-138: a wanted target without a path falls back to the marker
MarkerFallback(s) ==
    [s EXCEPT !.paths.webp = IF s.generateWebp /\ @ = Empty THEN s.paths.original ELSE @,
              !.paths.avif = IF s.generateAvif /\ @ = Empty THEN s.paths.original ELSE @]

\* variant: every encoding the transcoder returned is written
IssueDerived_IgnoresOptions(s) ==
    LET doWebp == s.compressionResult.webp # 0
        doAvif == s.compressionResult.avif # 0
    IN [s EXCEPT !.paths.webp = IF doWebp THEN s.generatedPaths.webp ELSE @,
                 !.webpUpload = IF doWebp THEN "pending" ELSE @,
                 !.paths.avif = IF doAvif THEN s.generatedPaths.avif ELSE @,
                 !.avifUpload = IF doAvif THEN "pending" ELSE @]

\* variant: the avif write is left out when a webp write is issued
IssueDerived_WebpAlone(s) ==
    LET doWebp == s.generateWebp /\ s.compressionResult.webp # 0
        doAvif == s.generateAvif /\ s.compressionResult.avif # 0 /\ ~doWebp
    IN [s EXCEPT !.paths.webp = IF doWebp THEN s.generatedPaths.webp ELSE @,
                 !.webpUpload = IF doWebp THEN "pending" ELSE @,
                 !.paths.avif = IF doAvif THEN s.generatedPaths.avif ELSE @,
                 !.avifUpload = IF doAvif THEN "pending" ELSE @]

\* upload.ts:112-126: the derived writes started from the transcoder's result
IssueDerived(s) ==
    LET doWebp == s.generateWebp /\ s.compressionResult.webp # 0
        doAvif == s.generateAvif /\ s.compressionResult.avif # 0
    IN [s EXCEPT !.paths.webp = IF doWebp THEN s.generatedPaths.webp ELSE @,
                 !.webpUpload = IF doWebp THEN "pending" ELSE @,
                 !.paths.avif = IF doAvif THEN s.generatedPaths.avif ELSE @,
                 !.avifUpload = IF doAvif THEN "pending" ELSE @]

\* `await compressionPromise` resumes (upload.ts:109-138)
AwaitCompression(u) ==
    /\ up[u].pc = "awaitCompression"
    /\ up[u].compression \in {"ok", "raised"}
    /\ up' = [up EXCEPT ![u] =
                IF @.compression = "raised" THEN Fail(@)
                ELSE LET s == IssueDerived(@) IN
                     IF s.webpUpload = "pending" \/ s.avifUpload = "pending"
                     THEN [s EXCEPT !.pc = "awaitDerived"]
                     ELSE IssueSave(u, MarkerFallback(s))]
    /\ UNCHANGED <<objects, images, hasImages, now, faults, rnd, sweep>>

\* storage.upload(paths.webp, ...) completes and its .then runs (upload.ts:115-116)
WebpWritten(u) ==
    /\ up[u].webpUpload = "pending"
    /\ objects' = objects \cup {up[u].generatedPaths.webp}
    /\ up' = [up EXCEPT ![u].webpUpload = "ok",
                        ![u].webpSize = up[u].compressionResult.webp]
    /\ UNCHANGED <<images, hasImages, now, faults, rnd, sweep>>

WebpWriteFails(u) ==
    /\ up[u].webpUpload = "pending"
    /\ faults < MaxFaults
    /\ faults' = faults + 1
    /\ up' = [up EXCEPT ![u].webpUpload = "failed"]
    /\ UNCHANGED <<objects, images, hasImages, now, rnd, sweep>>

\* storage.upload(paths.avif, ...) completes and its .then runs (upload.ts:123-124)
AvifWritten(u) ==
    /\ up[u].avifUpload = "pending"
    /\ objects' = objects \cup {up[u].generatedPaths.avif}
    /\ up' = [up EXCEPT ![u].avifUpload = "ok",
                        ![u].avifSize = up[u].compressionResult.avif]
    /\ UNCHANGED <<images, hasImages, now, faults, rnd, sweep>>

AvifWriteFails(u) ==
    /\ up[u].avifUpload = "pending"
    /\ faults < MaxFaults
    /\ faults' = faults + 1
    /\ up' = [up EXCEPT ![u].avifUpload = "failed"]
    /\ UNCHANGED <<objects, images, hasImages, now, rnd, sweep>>

\* variant: the handler resumes as soon as one derived write has resolved
AwaitDerived_First(u) ==
    /\ up[u].pc = "awaitDerived"
    /\ \/ "failed" \in {up[u].webpUpload, up[u].avifUpload}
       \/ "ok" \in {up[u].webpUpload, up[u].avifUpload}
    /\ up' = [up EXCEPT ![u] =
                IF "failed" \in {@.webpUpload, @.avifUpload} THEN Fail(@)
                ELSE IssueSave(u, MarkerFallback(@))]
    /\ UNCHANGED <<objects, images, hasImages, now, faults, rnd, sweep>>

\* `await Promise.all(uploadPromises)` resumes (upload.ts:128-138): it rejects
\* with the first write that fails and resolves when every write has resolved
AwaitDerived(u) ==
    /\ up[u].pc = "awaitDerived"
    /\ \/ "failed" \in {up[u].webpUpload, up[u].avifUpload}
       \/ "pending" \notin {up[u].webpUpload, up[u].avifUpload}
    /\ up' = [up EXCEPT ![u] =
                IF "failed" \in {@.webpUpload, @.avifUpload} THEN Fail(@)
                ELSE IssueSave(u, MarkerFallback(@))]
    /\ UNCHANGED <<objects, images, hasImages, now, faults, rnd, sweep>>

\* metadata.saveImage(imageMetadata) completes (upload.ts:174)
MetadataSaved(u) ==
    /\ up[u].saveImage = "pending"
    /\ images' = images \cup {up[u].imageMetadata}
    /\ up' = [up EXCEPT ![u].saveImage = "ok"]
    /\ UNCHANGED <<objects, hasImages, now, faults, rnd, sweep>>

MetadataSaveFails(u) ==
    /\ up[u].saveImage = "pending"
    /\ faults < MaxFaults
    /\ faults' = faults + 1
    /\ up' = [up EXCEPT ![u].saveImage = "failed"]
    /\ UNCHANGED <<objects, images, hasImages, now, rnd, sweep>>

\* `await metadata.saveImage` resumes; the invalidation is handed to waitUntil
\* and the response is returned (upload.ts:174-211)
UploadRespond(u) ==
    /\ up[u].pc = "awaitSave"
    /\ up[u].saveImage \in {"ok", "failed"}
    /\ up' = [up EXCEPT ![u] =
                IF @.saveImage = "failed" THEN Fail(@)
                ELSE [@ EXCEPT !.pc = "done", !.invalidation = "started",
                               !.response = "success"]]
    /\ UNCHANGED <<objects, images, hasImages, now, faults, rnd, sweep>>

\* the invalidation handed to waitUntil resolves, after the response
\* (upload.ts:200-205)
InvalidationDone(u) ==
    /\ up[u].invalidation = "started"
    /\ up' = [up EXCEPT ![u].invalidation = "ok"]
    /\ UNCHANGED <<objects, images, hasImages, now, faults, rnd, sweep>>

\* variant: a failed invalidation turns the answer into a failure
InvalidationFails_FailsUpload(u) ==
    /\ up[u].invalidation = "started"
    /\ faults < MaxFaults
    /\ faults' = faults + 1
    /\ up' = [up EXCEPT ![u].invalidation = "failed", ![u].response = "failed"]
    /\ UNCHANGED <<objects, images, hasImages, now, rnd, sweep>>

\* cache.invalidateImagesList or cache.invalidateTagsList rejects: nothing
\* awaits the promise given to waitUntil (upload.ts:200-205)
InvalidationFails(u) ==
    /\ up[u].invalidation = "started"
    /\ faults < MaxFaults
    /\ faults' = faults + 1
    /\ up' = [up EXCEPT ![u].invalidation = "failed"]
    /\ UNCHANGED <<objects, images, hasImages, now, rnd, sweep>>

UploadStep(u) ==
    \/ UploadReject(u)
    \/ UploadBegin(u)
    \/ OriginalWritten(u)
    \/ OriginalWriteFails(u)
    \/ CompressionReturns(u)
    \/ CompressionRaises(u)
    \/ AwaitOriginal(u)
    \/ AwaitCompression(u)
    \/ WebpWritten(u)
    \/ WebpWriteFails(u)
    \/ AvifWritten(u)
    \/ AvifWriteFails(u)
    \/ AwaitDerived(u)
    \/ MetadataSaved(u)
    \/ MetadataSaveFails(u)
    \/ UploadRespond(u)
    \/ InvalidationDone(u)
    \/ InvalidationFails(u)

\* ------------------------------------------------------------ retrieval

FormatParams == {"none", "original", "webp", "avif", "jpeg"}
OrientationParams == {"none", "landscape", "portrait", "square"}
AcceptHeaders == SUBSET {"image/avif", "image/webp"}
\* what the transform endpoint can answer: status ok, a body, a Content-Type
UpstreamResponses ==
    {[ok |-> TRUE, body |-> TRUE, contentType |-> "image/x-upstream"],
     [ok |-> TRUE, body |-> TRUE, contentType |-> "none"],
     [ok |-> TRUE, body |-> FALSE, contentType |-> "none"],
     [ok |-> FALSE, body |-> TRUE, contentType |-> "none"]}

\* ImageProcessor.getContentType
getContentType(format) ==
    CASE format = "jpeg" -> "image/jpeg"
      [] format = "png" -> "image/png"
      [] format = "gif" -> "image/gif"
      [] format = "webp" -> "image/webp"
      [] format = "avif" -> "image/avif"

\* getBestFormat(acceptHeader): avif over webp over original
getBestFormat(accept) ==
    IF "image/avif" \in accept THEN "avif"
    ELSE IF "image/webp" \in accept THEN "webp"
    ELSE "original"

\* the URL buildImageUrls gives one derived variant: none when the variant is
\* not asked for, the stored object when the slot holds the variant's own
\* bytes, the on-demand transform of the original otherwise
VariantUrl(image, target, generate) ==
    IF image.format = "gif" \/ ~generate THEN Empty
    ELSE IF image.paths[target] # Empty
            /\ (image.paths[target] # image.paths.original \/ image.format = target)
         THEN <<"r2", image.paths[target]>>
         ELSE <<"transform", image.paths.original, target>>

buildImageUrls(image, options) ==
    [original |-> <<"r2", image.paths.original>>,
     webp |-> VariantUrl(image, "webp", options.generateWebp),
     avif |-> VariantUrl(image, "avif", options.generateAvif)]

\* metadata.getRandomImage({orientation}): the rows the filter admits
getRandomImage(orientation) == {i \in images : i.orientation = orientation}

IdleRandom ==
    [pc |-> "idle", orientationParam |-> "none", mobile |-> FALSE,
     orientation |-> "none", image |-> {},
     formatParam |-> "none", accept |-> {}, format |-> "none",
     r2Key |-> Empty, targetUrl |-> Empty, contentType |-> "none",
     file |-> "none", upstream |-> "none",
     storageReads |-> {}, fetched |-> {}, status |-> 0]

\* variant: a mobile user agent overrides the orientation parameter
ResolveOrientation_DeviceFirst(orientationParam, mobile) ==
    IF mobile THEN "portrait"
    ELSE IF orientationParam \in {"landscape", "portrait"} THEN orientationParam
    ELSE "landscape"

\* randomHandler:26-34
ResolveOrientation(orientationParam, mobile) ==
    IF orientationParam \in {"landscape", "portrait"} THEN orientationParam
    ELSE IF mobile THEN "portrait" ELSE "landscape"

\* randomHandler:13-46: parse the query, pick the orientation, select a row
RandomSelect ==
    /\ rnd.pc = "idle"
    /\ \E orientationParam \in OrientationParams, mobile \in BOOLEAN :
          LET orientation == ResolveOrientation(orientationParam, mobile)
              request == [IdleRandom EXCEPT !.orientationParam = orientationParam,
                                            !.mobile = mobile,
                                            !.orientation = orientation]
          IN \/ /\ getRandomImage(orientation) = {}
                /\ rnd' = [request EXCEPT !.pc = "done", !.status = 404]
             \/ \E image \in getRandomImage(orientation) :
                   rnd' = [request EXCEPT !.pc = "selected", !.image = {image}]
    /\ UNCHANGED <<objects, images, hasImages, now, faults, up, sweep>>

\* variant: both variants are always asked of buildImageUrls
UrlOptions_Always(image) == [generateWebp |-> TRUE, generateAvif |-> TRUE]

\* randomHandler:48-56, the options handed to buildImageUrls
UrlOptions(image) ==
    [generateWebp |-> image.paths.webp # Empty
                        \/ image.sizes.original > CLOUDFLARE_IMAGES_MAX_BYTES,
     generateAvif |-> image.paths.avif # Empty
                        \/ image.sizes.original > CLOUDFLARE_IMAGES_MAX_BYTES]

\* variant: the Accept header is preferred to the format parameter
ResolveFormat_AcceptFirst(formatParam, accept) ==
    IF getBestFormat(accept) # "original" THEN getBestFormat(accept)
    ELSE IF formatParam \in {"webp", "avif", "original"} THEN formatParam
    ELSE "original"

\* randomHandler:69-77
ResolveFormat(formatParam, accept) ==
    IF formatParam \in {"webp", "avif", "original"} THEN formatParam
    ELSE getBestFormat(accept)

\* variant: any alias of the original is taken for a marker
VariantChoice_AliasIsMarker(image, urls, target) ==
    [format |-> target,
     targetUrl |-> IF urls[target] # Empty THEN urls[target] ELSE urls.original,
     contentTypeFallback |-> IF urls[target] # Empty THEN getContentType(target)
                             ELSE getContentType(image.format),
     r2Key |-> IF urls[target] = Empty THEN image.paths.original
               ELSE IF image.paths[target] # Empty
                    THEN IF image.paths[target] = image.paths.original
                         THEN Empty ELSE image.paths[target]
                    ELSE Empty]

\* randomHandler:80-103, one case of the switch for a derived target
VariantChoice(image, urls, target) ==
    [format |-> target,
     targetUrl |-> IF urls[target] # Empty THEN urls[target] ELSE urls.original,
     contentTypeFallback |-> IF urls[target] # Empty THEN getContentType(target)
                             ELSE getContentType(image.format),
     r2Key |-> IF urls[target] = Empty THEN image.paths.original
               ELSE IF image.paths[target] # Empty
                    THEN IF image.paths[target] = image.paths.original
                            /\ image.format # target
                         THEN Empty ELSE image.paths[target]
                    ELSE Empty]

\* variant: the gif branch leaves r2Key unset
Negotiate_GifNoKey(image, formatParam, accept) ==
    LET urls == buildImageUrls(image, UrlOptions(image))
        original == [format |-> "original",
                     targetUrl |-> urls.original,
                     contentTypeFallback |-> getContentType(image.format),
                     r2Key |-> image.paths.original]
        format == ResolveFormat(formatParam, accept)
    IN IF image.format = "gif"
       THEN [original EXCEPT !.format = "none", !.r2Key = Empty,
                             !.contentTypeFallback = "image/gif"]
       ELSE IF format \in {"avif", "webp"} THEN VariantChoice(image, urls, format)
       ELSE original

\* randomHandler:58-109: what to serve, from where, under which content type
Negotiate(image, formatParam, accept) ==
    LET urls == buildImageUrls(image, UrlOptions(image))
        original == [format |-> "original",
                     targetUrl |-> urls.original,
                     contentTypeFallback |-> getContentType(image.format),
                     r2Key |-> image.paths.original]
        format == ResolveFormat(formatParam, accept)
    IN IF image.format = "gif"
       THEN [original EXCEPT !.format = "none", !.contentTypeFallback = "image/gif"]
       ELSE IF format \in {"avif", "webp"} THEN VariantChoice(image, urls, format)
       ELSE original

\* variant: an absent object is replaced by the original
StorageResponse_TryOriginal(image, choice) ==
    LET found == choice.r2Key \in objects
        substitute == image.paths.original \in objects
    IN [file |-> IF found THEN "object" ELSE "absent",
        upstream |-> "none",
        storageReads |-> IF found THEN {choice.r2Key}
                         ELSE {choice.r2Key, image.paths.original},
        fetched |-> {},
        status |-> IF found \/ substitute THEN 200 ELSE 404,
        contentType |-> IF found THEN choice.contentTypeFallback
                        ELSE IF substitute THEN getContentType(image.format)
                        ELSE "none"]

\* randomHandler:112-126: serve the key from the R2 binding
StorageResponse(image, choice) ==
    [file |-> IF choice.r2Key \in objects THEN "object" ELSE "absent",
     upstream |-> "none",
     storageReads |-> {choice.r2Key},
     fetched |-> {},
     status |-> IF choice.r2Key \in objects THEN 200 ELSE 404,
     contentType |-> IF choice.r2Key \in objects THEN choice.contentTypeFallback
                     ELSE "none"]

\* randomHandler:128-142: proxy the transform URL
ProxyResponse(choice, upstream) ==
    [file |-> "none",
     upstream |-> IF upstream.ok /\ upstream.body THEN "ok" ELSE "failed",
     storageReads |-> {},
     fetched |-> {choice.targetUrl},
     status |-> IF upstream.ok /\ upstream.body THEN 200 ELSE 404,
     contentType |-> IF ~(upstream.ok /\ upstream.body) THEN "none"
                     ELSE IF upstream.contentType # "none" THEN upstream.contentType
                     ELSE choice.contentTypeFallback]

\* randomHandler:48-143: negotiate, then read the key from R2 or proxy the
\* transform URL, and answer
RandomServe ==
    /\ rnd.pc = "selected"
    /\ \E image \in rnd.image, formatParam \in FormatParams, accept \in AcceptHeaders :
          LET choice == Negotiate(image, formatParam, accept)
              \* orientationParam and the user agent are dead after the selection
              request == [rnd EXCEPT !.pc = "done",
                                     !.orientationParam = "none", !.mobile = FALSE,
                                     !.formatParam = formatParam, !.accept = accept,
                                     !.format = choice.format,
                                     !.r2Key = choice.r2Key,
                                     !.targetUrl = choice.targetUrl]
          IN \E response \in
                 IF choice.r2Key # Empty THEN {StorageResponse(image, choice)}
                 ELSE {ProxyResponse(choice, upstream) : upstream \in UpstreamResponses} :
                rnd' = [request EXCEPT !.file = response.file,
                                       !.upstream = response.upstream,
                                       !.storageReads = response.storageReads,
                                       !.fetched = response.fetched,
                                       !.status = response.status,
                                       !.contentType = response.contentType]
    /\ UNCHANGED <<objects, images, hasImages, now, faults, up, sweep>>

\* randomHandler:144-147: getRandomImage, storage.get or fetch raises
RandomFails ==
    /\ rnd.pc \in {"idle", "selected"}
    /\ faults < MaxFaults
    /\ faults' = faults + 1
    /\ rnd' = [rnd EXCEPT !.pc = "done", !.orientationParam = "none",
                          !.mobile = FALSE, !.status = 500]
    /\ UNCHANGED <<objects, images, hasImages, now, up, sweep>>

\* -------------------------------------------------------------- cleanup

IdleSweep == [pc |-> "idle", expiredImages |-> <<>>, deletedCount |-> 0,
              response |-> "none"]

\* metadata.getExpiredImages(): the rows whose expiry time has passed
getExpiredImages == {i \in images : \E t \in i.expiryTime : t < now}

\* every order in which the store can list a set of rows
RECURSIVE Listings(_)
Listings(rows) ==
    IF rows = {} THEN {<<>>}
    ELSE UNION {{<<r>> \o rest : rest \in Listings(rows \ {r})} : r \in rows}

\* cleanupHandler:96, reached without suspension once no expired image is left
Finish(s) ==
    IF s.expiredImages = <<>>
    THEN [s EXCEPT !.pc = "done", !.response = "success"]
    ELSE [s EXCEPT !.pc = "deleteFiles"]

\* cleanupHandler:68-76: list the expired images
CleanupBegin ==
    /\ sweep.pc = "idle"
    /\ \E listing \in Listings(getExpiredImages) :
          sweep' = Finish([IdleSweep EXCEPT !.expiredImages = listing])
    /\ UNCHANGED <<objects, images, hasImages, now, faults, up, rnd>>

\* cleanupHandler:98-101: getExpiredImages raises
CleanupBeginFails ==
    /\ sweep.pc = "idle"
    /\ faults < MaxFaults
    /\ faults' = faults + 1
    /\ sweep' = [IdleSweep EXCEPT !.pc = "done", !.response = "failed"]
    /\ UNCHANGED <<objects, images, hasImages, now, up, rnd>>

\* cleanupHandler:81-83
keysToDelete(image) ==
    {image.paths.original}
        \cup (IF image.paths.webp # Empty THEN {image.paths.webp} ELSE {})
        \cup (IF image.paths.avif # Empty THEN {image.paths.avif} ELSE {})

\* cleanupHandler:78-85: storage.deleteMany of the next expired image
CleanupDeleteFiles ==
    /\ sweep.pc = "deleteFiles"
    /\ objects' = objects \ keysToDelete(Head(sweep.expiredImages))
    /\ sweep' = [sweep EXCEPT !.pc = "deleteImage"]
    /\ UNCHANGED <<images, hasImages, now, faults, up, rnd>>

\* variant: a failed deleteMany is ignored and the row is deleted all the same
CleanupDeleteFilesFails_Proceeds ==
    /\ sweep.pc = "deleteFiles"
    /\ faults < MaxFaults
    /\ faults' = faults + 1
    /\ sweep' = [sweep EXCEPT !.pc = "deleteImage"]
    /\ UNCHANGED <<objects, images, hasImages, now, up, rnd>>

\* variant: a failed deleteMany ends the sweep
CleanupDeleteFilesFails_Aborts ==
    /\ sweep.pc = "deleteFiles"
    /\ faults < MaxFaults
    /\ faults' = faults + 1
    /\ sweep' = [sweep EXCEPT !.pc = "done", !.response = "failed"]
    /\ UNCHANGED <<objects, images, hasImages, now, up, rnd>>

\* cleanupHandler:85, 91-93: deleteMany raises, the image is skipped
CleanupDeleteFilesFails ==
    /\ sweep.pc = "deleteFiles"
    /\ faults < MaxFaults
    /\ faults' = faults + 1
    /\ sweep' = Finish([sweep EXCEPT !.expiredImages = Tail(@)])
    /\ UNCHANGED <<objects, images, hasImages, now, up, rnd>>

\* cleanupHandler:88-90: metadata.deleteImage, then the count
CleanupDeleteImage ==
    /\ sweep.pc = "deleteImage"
    /\ images' = {i \in images : i.id # Head(sweep.expiredImages).id}
    /\ sweep' = Finish([sweep EXCEPT !.expiredImages = Tail(@),
                                     !.deletedCount = @ + 1])
    /\ UNCHANGED <<objects, hasImages, now, faults, up, rnd>>

\* cleanupHandler:88, 91-93: deleteImage raises, the image is skipped
CleanupDeleteImageFails ==
    /\ sweep.pc = "deleteImage"
    /\ faults < MaxFaults
    /\ faults' = faults + 1
    /\ sweep' = Finish([sweep EXCEPT !.expiredImages = Tail(@)])
    /\ UNCHANGED <<objects, images, hasImages, now, up, rnd>>

\* the clock advances; time is observable only through a stored expiry time
\* that has not passed yet
Tick ==
    /\ now < MaxTime
    /\ \E i \in images : \E t \in i.expiryTime : ~(t < now)
    /\ now' = now + 1
    /\ UNCHANGED <<objects, images, hasImages, faults, up, rnd, sweep>>

Init ==
    /\ objects = {}
    /\ images = {}
    /\ hasImages \in BOOLEAN
    /\ now = 0
    /\ faults = 0
    /\ up = [u \in Uploads |-> IdleUpload]
    /\ rnd = IdleRandom
    /\ sweep = IdleSweep

Next ==
    \/ \E u \in Uploads : UploadStep(u)
    \/ RandomSelect
    \/ RandomServe
    \/ RandomFails
    \/ CleanupBegin
    \/ CleanupBeginFails
    \/ CleanupDeleteFiles
    \/ CleanupDeleteFilesFails
    \/ CleanupDeleteImage
    \/ CleanupDeleteImageFails
    \/ Tick

Spec == Init /\ [][Next]_vars

\* the upload pipeline on its own
NextUpload == \E u \in Uploads : UploadStep(u)

SpecUpload == Init /\ [][NextUpload]_vars

\* rows as earlier uploads saved them: transcoded, pass-through gif, marker
\* aliases, one that never expires, and one with an unwanted encoding
StoredRows ==
    {[id |-> 1, expiryTime |-> {0}, orientation |-> "landscape", format |-> "jpeg",
      paths |-> generatePaths(1, "landscape", "jpeg"),
      sizes |-> [original |-> CLOUDFLARE_IMAGES_MAX_BYTES,
                 webp |-> CompressedSize("webp"), avif |-> CompressedSize("avif")]],
     [id |-> 2, expiryTime |-> {0}, orientation |-> "portrait", format |-> "gif",
      paths |-> [generatePaths(2, "portrait", "gif")
                   EXCEPT !.webp = Empty, !.avif = Empty],
      sizes |-> [original |-> CLOUDFLARE_IMAGES_MAX_BYTES, webp |-> 0, avif |-> 0]],
     [id |-> 3, expiryTime |-> {1}, orientation |-> "portrait", format |-> "png",
      paths |-> [generatePaths(3, "portrait", "png")
                   EXCEPT !.webp = <<3, "original">>, !.avif = <<3, "original">>],
      sizes |-> [original |-> CLOUDFLARE_IMAGES_MAX_BYTES + 1, webp |-> 0, avif |-> 0]],
     [id |-> 4, expiryTime |-> {}, orientation |-> "landscape", format |-> "webp",
      paths |-> [generatePaths(4, "landscape", "webp")
                   EXCEPT !.webp = <<4, "original">>, !.avif = Empty],
      sizes |-> [original |-> CLOUDFLARE_IMAGES_MAX_BYTES,
                 webp |-> CLOUDFLARE_IMAGES_MAX_BYTES, avif |-> 0]],
     [id |-> 5, expiryTime |-> {1}, orientation |-> "landscape", format |-> "jpeg",
      paths |-> [generatePaths(5, "landscape", "jpeg") EXCEPT !.avif = Empty],
      sizes |-> [original |-> CLOUDFLARE_IMAGES_MAX_BYTES,
                 webp |-> CompressedSize("webp"), avif |-> 0]]}

\* the sweep over stores that already hold rows, some of them expired
InitSweep ==
    /\ images = StoredRows
    /\ objects = UNION {keysToDelete(i) : i \in StoredRows}
    /\ hasImages = TRUE
    /\ now \in 0..MaxTime
    /\ faults = 0
    /\ up = [u \in Uploads |-> IdleUpload]
    /\ rnd = IdleRandom
    /\ sweep = IdleSweep

NextSweep ==
    \/ CleanupBegin
    \/ CleanupBeginFails
    \/ CleanupDeleteFiles
    \/ CleanupDeleteFilesFails
    \/ CleanupDeleteImage
    \/ CleanupDeleteImageFails

SpecSweep == InitSweep /\ [][NextSweep]_vars
\* ============================================================ properties

\* the locations a row references
Referenced(image) == keysToDelete(image)

\* the row an upload has saved, if it is in the store
Saved(u) == up[u].saveImage = "ok"

\* C1: in a fault-free run every row of the metadata store references only
\* locations present in the object store, and a retrieval that reads a
\* location of the row it selected finds the object.
C1_RowsAreBacked ==
    faults = 0 =>
        /\ \A i \in images : Referenced(i) \subseteq objects
        /\ rnd.pc = "done" /\ rnd.storageReads # {} => rnd.status = 200

\* C2: an upload of a gif, webp or avif never invokes the transcoder and
\* writes only the original; a webp source is saved with webp slot = original
\* and webp size = original size, an avif source likewise for avif, a gif
\* source with both derived slots empty and both derived sizes 0, whatever the
\* compression options are.
C2_PassThrough ==
    \A u \in Uploads :
        LET s == up[u] m == s.imageMetadata IN
        s.pc # "idle" /\ s.format \in {"gif", "webp", "avif"} =>
            /\ s.compression = "none"
            /\ s.webpUpload = "none" /\ s.avifUpload = "none"
            /\ objects \cap {s.generatedPaths.webp, s.generatedPaths.avif} = {}
            /\ s.saveImage # "none" =>
                  /\ m.paths.original = s.generatedPaths.original
                  /\ m.sizes.original = s.size
                  /\ s.format = "webp" =>
                        m.paths.webp = m.paths.original /\ m.sizes.webp = s.size
                  /\ s.format = "avif" =>
                        m.paths.avif = m.paths.original /\ m.sizes.avif = s.size
                  /\ s.format = "gif" =>
                        /\ m.paths.webp = Empty /\ m.paths.avif = Empty
                        /\ m.sizes.webp = 0 /\ m.sizes.avif = 0
            /\ Saved(u) => m \in images

C2_Witness ==
    \E u \in Uploads :
        /\ up[u].response = "success"
        /\ up[u].format = "webp"
        /\ ~up[u].generateWebp /\ hasImages
        /\ up[u].imageMetadata \in images
        /\ up[u].imageMetadata.paths.webp = up[u].generatedPaths.original

\* C3: a jpeg/png upload that passed validation, with no transcoder
\* configured or with a file larger than 10 MiB, never invokes the
\* transcoder and writes only the original, and
\* each wanted target slot of the saved row is the original location with
\* size 0; a file of exactly 10 MiB with a transcoder configured takes the
\* transcoding path.
C3_SkippedTranscoding ==
    \A u \in Uploads :
        LET s == up[u] m == s.imageMetadata IN
        s.pc # "idle" /\ s.response # "rejected" /\ s.format \in {"jpeg", "png"} =>
            /\ ~hasImages \/ s.size > 10 * 1024 * 1024 =>
                  /\ s.compression = "none"
                  /\ s.webpUpload = "none" /\ s.avifUpload = "none"
                  /\ objects \cap {s.generatedPaths.webp, s.generatedPaths.avif} = {}
                  /\ s.saveImage # "none" =>
                        /\ s.generateWebp =>
                              m.paths.webp = m.paths.original /\ m.sizes.webp = 0
                        /\ s.generateAvif =>
                              m.paths.avif = m.paths.original /\ m.sizes.avif = 0
                  /\ Saved(u) => m \in images
            /\ hasImages /\ s.size = 10 * 1024 * 1024 => s.compression # "none"

C3_Witness ==
    \E u \in Uploads :
        /\ up[u].response = "success"
        /\ up[u].format = "png"
        /\ hasImages /\ up[u].size > 10 * 1024 * 1024
        /\ up[u].generateWebp /\ up[u].generateAvif
        /\ up[u].imageMetadata \in images
        /\ up[u].imageMetadata.paths.avif = up[u].generatedPaths.original

\* C3, the boundary: a 10 MiB jpeg with a transcoder configured was transcoded
C3_WitnessAtLimit ==
    \E u \in Uploads :
        /\ up[u].response = "success"
        /\ up[u].size = 10 * 1024 * 1024
        /\ up[u].compression = "ok"
        /\ up[u].imageMetadata.paths.webp = up[u].generatedPaths.webp

\* some write or the save of the upload failed
StorageFailed(s) ==
    "failed" \in {s.originalUpload, s.webpUpload, s.avifUpload, s.saveImage}

\* C4: on the transcoding path, when the transcoder returns without raising,
\* each wanted target it produced is written to its allocated slot and saved
\* with that location and the produced size, each wanted target it omitted is
\* saved as the marker (slot = original) with size 0, and the upload succeeds
\* unless a write or the save itself fails.
C4_PartialTranscode ==
    \A u \in Uploads :
        LET s == up[u] m == s.imageMetadata r == s.compressionResult IN
        s.compression = "ok" =>
            /\ s.saveImage # "none" =>
                  /\ s.generateWebp /\ r.webp # 0 =>
                        /\ m.paths.webp = s.generatedPaths.webp
                        /\ m.sizes.webp = r.webp
                        /\ s.webpUpload = "ok"
                  /\ s.generateWebp /\ r.webp = 0 =>
                        m.paths.webp = m.paths.original /\ m.sizes.webp = 0
                  /\ s.generateAvif /\ r.avif # 0 =>
                        /\ m.paths.avif = s.generatedPaths.avif
                        /\ m.sizes.avif = r.avif
                        /\ s.avifUpload = "ok"
                  /\ s.generateAvif /\ r.avif = 0 =>
                        m.paths.avif = m.paths.original /\ m.sizes.avif = 0
            /\ Saved(u) => m \in images
            /\ s.pc = "done" /\ ~StorageFailed(s) => s.response = "success"

C4_Witness ==
    \E u \in Uploads :
        LET s == up[u] IN
        /\ s.response = "success"
        /\ s.generateWebp /\ s.generateAvif
        /\ s.compressionResult.webp = 0 /\ s.compressionResult.avif # 0
        /\ s.imageMetadata \in images
        /\ s.imageMetadata.paths.webp = s.generatedPaths.original
        /\ s.imageMetadata.paths.avif = s.generatedPaths.avif
        /\ s.generatedPaths.avif \in objects

\* C5: a transcoder error or a failed derived-variant write never fails the
\* upload: an upload fails only when the write of its original or its
\* metadata save failed.
C5_OnlyDurableWriteFails ==
    \A u \in Uploads :
        up[u].response = "failed" =>
            up[u].originalUpload = "failed" \/ up[u].saveImage = "failed"
\* the retrieval has answered for the row it selected
Served == rnd.pc = "done" /\ rnd.image # {} /\ rnd.status # 500

\* the slot of a derived target is a marker: it aliases the original while
\* the source is of another format
IsMarker(image, target) ==
    image.paths[target] = image.paths.original /\ image.format # target

\* C6: for a non-gif row and a chosen target webp or avif whose slot is not
\* empty, retrieval does exactly one thing: for a marker slot it fetches the
\* on-demand transform URL and reads nothing from the object store; for any
\* other slot (a derived location, or the literal alias of a source of that
\* format) it reads the slot's location from the object store and fetches
\* nothing.
C6_MarkerProxiesElseDirect ==
    Served =>
        \A image \in rnd.image :
            /\ image.format # "gif"
            /\ rnd.format \in {"webp", "avif"}
            /\ image.paths[rnd.format] # Empty
            => IF IsMarker(image, rnd.format)
               THEN /\ rnd.fetched = {<<"transform", image.paths.original, rnd.format>>}
                    /\ rnd.storageReads = {}
               ELSE /\ rnd.storageReads = {image.paths[rnd.format]}
                    /\ rnd.fetched = {}

C6_Witness ==
    /\ Served
    /\ \E image \in rnd.image :
          /\ image.format = "jpeg" /\ rnd.format = "avif"
          /\ IsMarker(image, "avif")
          /\ rnd.fetched = {<<"transform", image.paths.original, "avif">>}
          /\ rnd.status = 200

\* C6, the other case: a literal alias and a derived location are read directly
C6_WitnessDirect ==
    /\ Served
    /\ \E image \in rnd.image :
          /\ rnd.format = "webp" /\ rnd.status = 200
          /\ image.paths.webp # Empty /\ ~IsMarker(image, "webp")
          /\ rnd.storageReads = {image.paths.webp}

\* retrieval fell back to the original: one direct read, the original's type
ServedOriginal(image) ==
    /\ rnd.storageReads = {image.paths.original}
    /\ rnd.fetched = {}
    /\ rnd.status = 200 => rnd.contentType = getContentType(image.format)

\* the chosen target of a non-gif row is webp or avif and its slot is empty
EmptySlotChosen(image) ==
    /\ image.format # "gif"
    /\ rnd.format \in {"webp", "avif"}
    /\ image.paths[rnd.format] = Empty

C8_GifServesOriginal ==
    Served =>
        \A image \in rnd.image :
            image.format = "gif" =>
                /\ rnd.storageReads = {image.paths.original}
                /\ rnd.fetched = {}
                /\ rnd.status = 200 => rnd.contentType = "image/gif"

C8_Witness ==
    /\ Served
    /\ \E image \in rnd.image :
          /\ image.format = "gif"
          /\ image.sizes.original > 10 * 1024 * 1024
          /\ rnd.formatParam = "avif" /\ "image/avif" \in rnd.accept
          /\ rnd.status = 200 /\ rnd.contentType = "image/gif"

\* C9: for a non-gif row the target format is the format parameter when that
\* is original, webp or avif, whatever the Accept header; the best format of
\* the Accept header is used only when the parameter is absent or has another
\* value.
C9_ExplicitFormatWins ==
    Served =>
        \A image \in rnd.image :
            image.format # "gif" =>
                /\ rnd.formatParam \in {"original", "webp", "avif"} =>
                      rnd.format = rnd.formatParam
                /\ rnd.formatParam \notin {"original", "webp", "avif"} =>
                      rnd.format = getBestFormat(rnd.accept)
                /\ rnd.format = "original" => rnd.storageReads = {image.paths.original}

C9_Witness ==
    /\ Served
    /\ \E image \in rnd.image : image.format = "png"
    /\ rnd.formatParam = "webp"
    /\ rnd.accept = {"image/avif", "image/webp"}
    /\ rnd.format = "webp"

\* C10: retrieval answers 404 and substitutes nothing when no row matches the
\* filter, when the chosen location is read and is absent (the original is
\* not tried instead), and when the transform fetch is not a success or has
\* no body (the object store is not tried instead).
C10_NotFoundNeverSubstitutes ==
    rnd.pc = "done" /\ rnd.status # 500 =>
        /\ rnd.image = {} =>
              rnd.status = 404 /\ rnd.storageReads = {} /\ rnd.fetched = {}
        /\ rnd.file = "absent" =>
              /\ rnd.status = 404
              /\ rnd.storageReads = {rnd.r2Key} /\ rnd.fetched = {}
        /\ rnd.upstream = "failed" =>
              /\ rnd.status = 404
              /\ rnd.storageReads = {} /\ rnd.fetched = {rnd.targetUrl}
        /\ rnd.status = 404 =>
              rnd.image = {} \/ rnd.file = "absent" \/ rnd.upstream = "failed"

\* a derived location was chosen, found absent, and the original was not read
C10_Witness ==
    /\ rnd.pc = "done" /\ rnd.status = 404
    /\ rnd.file = "absent"
    /\ \E image \in rnd.image :
          /\ rnd.r2Key = image.paths.webp
          /\ rnd.r2Key # image.paths.original
          /\ rnd.storageReads = {rnd.r2Key}
\* C11: an upload rejected by validation (declared Content-Length above
\* 70 MiB, unparsable form, missing file, file above 70 MiB, unsupported
\* format) has started no write, no transcoding, no save and no cache
\* invalidation, so both stores are as they were; a declared Content-Length
\* above 70 MiB is rejected before the body is read; and no upload that
\* started a write carries a file above 70 MiB or of an unsupported format.
C11_RejectionTouchesNothing ==
    \A u \in Uploads :
        LET s == up[u] IN
        /\ s.response = "rejected" =>
              /\ s.originalUpload = "none" /\ s.compression = "none"
              /\ s.webpUpload = "none" /\ s.avifUpload = "none"
              /\ s.saveImage = "none" /\ s.invalidation = "none"
              /\ objects = {} /\ images = {}
        /\ s.pc # "idle" /\ (\E n \in s.contentLength : n > 70 * 1024 * 1024) =>
              s.response = "rejected" /\ ~s.bodyRead
        /\ s.originalUpload # "none" =>
              /\ s.size <= 70 * 1024 * 1024
              /\ s.format \in {"jpeg", "png", "gif", "webp", "avif"}

\* a well-formed form is rejected on its declared length, unread
C11_Witness ==
    \E u \in Uploads :
        /\ up[u].response = "rejected"
        /\ up[u].contentLength = {70 * 1024 * 1024 + 1}
        /\ up[u].formParses /\ up[u].hasFile /\ up[u].format = "jpeg"
        /\ ~up[u].bodyRead
        /\ objects = {} /\ images = {}

\* C11, the other rejections: they happen after the body was read
C11_WitnessUnsupported ==
    \E u \in Uploads :
        /\ up[u].response = "rejected" /\ up[u].error = "Unsupported format"
        /\ up[u].bodyRead
\* the stored rows that were expired when the sweep began
ExpiredAtStart == {i \in StoredRows : \E t \in i.expiryTime : t < now}

\* C12: a failure while deleting one expired image does not stop the sweep:
\* once the expired rows were listed the sweep ends in success with every
\* listed row processed (a row survives only where a deletion failed), and
\* deletedCount is exactly the number of listed rows whose objects and whose
\* row are both gone; only a failed listing makes the sweep fail.
C12_SweepSurvivesItemFailure ==
    sweep.pc = "done" =>
        \/ /\ sweep.response = "success"
           /\ sweep.expiredImages = <<>>
           /\ Cardinality(ExpiredAtStart \cap images) <= faults
           /\ sweep.deletedCount =
                Cardinality({i \in ExpiredAtStart :
                               i \notin images /\ keysToDelete(i) \cap objects = {}})
           /\ sweep.deletedCount = Cardinality(ExpiredAtStart \ images)
        \/ /\ sweep.response = "failed"
           /\ sweep.deletedCount = 0
           /\ images = StoredRows

\* four rows were listed, one deletion failed, the other three were removed
C12_Witness ==
    /\ sweep.pc = "done" /\ sweep.response = "success"
    /\ Cardinality(ExpiredAtStart) = 4
    /\ faults = 1
    /\ sweep.deletedCount = 3
    /\ \E i \in ExpiredAtStart : i \in images /\ i.id = 1
\* C17: the sweep deletes a row only after the deletion of that row's
\* objects has completed: while the row deletion is pending none of the
\* row's objects is in the store, a row whose object deletion failed is
\* kept and not counted, and no object is left in the store for a row the
\* sweep has removed.
C17_ObjectsBeforeRow ==
    /\ sweep.pc = "deleteImage" =>
          /\ keysToDelete(Head(sweep.expiredImages)) \cap objects = {}
          /\ Head(sweep.expiredImages) \in images
    /\ \A i \in StoredRows :
          i \notin images => keysToDelete(i) \cap objects = {}
    /\ sweep.deletedCount <=
          Cardinality({i \in ExpiredAtStart : keysToDelete(i) \cap objects = {}})
    /\ sweep.deletedCount = Cardinality(StoredRows \ images)

\* the object deletion of row 1 failed: the row and its three objects are
\* still stored, while row 2 was removed after its object
C17_Witness ==
    /\ sweep.pc = "done" /\ faults = 1
    /\ \E i \in images : i.id = 1 /\ i \in ExpiredAtStart
                         /\ keysToDelete(i) \subseteq objects
    /\ \E i \in ExpiredAtStart : i.id = 2 /\ i \notin images
                                 /\ keysToDelete(i) \cap objects = {}

\* C17, the row deletion is pending and the objects are already gone
C17_WitnessPending ==
    /\ sweep.pc = "deleteImage"
    /\ Head(sweep.expiredImages).id = 1
    /\ keysToDelete(Head(sweep.expiredImages)) \cap objects = {}
\* C13: an upload issues its metadata save only after its original write
\* and every derived write it issued have completed: once the save is
\* issued none of the upload's own writes is in flight or failed, the
\* transcoder is not running, and every object the row names is stored.
C13_SaveAfterWrites ==
    \A u \in Uploads :
        up[u].saveImage # "none" =>
            /\ up[u].originalUpload = "ok"
            /\ up[u].webpUpload \in {"none", "ok"}
            /\ up[u].avifUpload \in {"none", "ok"}
            /\ up[u].compression \in {"none", "ok"}
            /\ up[u].saveImage = "pending" =>
                  {up[u].imageMetadata.paths.original,
                   up[u].imageMetadata.paths.webp,
                   up[u].imageMetadata.paths.avif} \ {Empty} \subseteq objects

\* the save is issued after two derived writes, both completed
C13_Witness ==
    \E u \in Uploads :
        /\ up[u].saveImage = "pending"
        /\ up[u].originalUpload = "ok"
        /\ up[u].webpUpload = "ok" /\ up[u].avifUpload = "ok"
        /\ {<<u, "original">>, <<u, "webp">>, <<u, "avif">>} \subseteq objects
\* C14: when the original write fails the upload answers the generic
\* failure: it saves no row, issues no derived write (whatever the
\* transcoder returns meanwhile), starts no cache invalidation and stores
\* no object.
C14_OriginalFailureIsFatal ==
    \A u \in Uploads :
        up[u].originalUpload = "failed" =>
            /\ up[u].response \in {"none", "failed"}
            /\ up[u].pc \in {"awaitOriginal", "done"}
            /\ up[u].pc = "done" => up[u].response = "failed"
            /\ up[u].webpUpload = "none" /\ up[u].avifUpload = "none"
            /\ up[u].saveImage = "none"
            /\ up[u].invalidation = "none"
            /\ \A i \in images : i.id # u
            /\ \A k \in objects : k[1] # u

\* the original write failed, the transcoder returned both encodings, and
\* the upload failed
C14_Witness ==
    \E u \in Uploads :
        /\ up[u].originalUpload = "failed"
        /\ up[u].compression = "ok"
        /\ up[u].compressionResult.webp # 0 /\ up[u].compressionResult.avif # 0
        /\ up[u].generateWebp /\ up[u].generateAvif
        /\ up[u].pc = "done" /\ up[u].response = "failed"
\* C15: on the transcoding path the transcoder is started in the step that
\* starts the original write, so while that write is in flight; a derived
\* write is issued only once the transcoder has returned bytes for it and
\* the original write has completed; and when the transcoder returned both
\* wanted encodings the two derived writes are issued in one step, before
\* the handler waits for either.
C15_TranscodeOverlapsOriginal ==
    [][\A u \in Uploads :
          LET s == up[u]
              t == up'[u] IN
          /\ s.compression = "none" /\ t.compression # "none" =>
                /\ s.originalUpload = "none"
                /\ t.originalUpload = "pending" /\ t.compression = "pending"
          /\ t.webpUpload # "none" =>
                t.compression = "ok" /\ t.compressionResult.webp # 0
                /\ t.originalUpload = "ok"
          /\ t.avifUpload # "none" =>
                t.compression = "ok" /\ t.compressionResult.avif # 0
                /\ t.originalUpload = "ok"
          /\ s.pc = "awaitCompression" /\ t.pc # s.pc /\ t.compression = "ok"
             /\ t.generateWebp /\ t.generateAvif
             /\ t.compressionResult.webp # 0 /\ t.compressionResult.avif # 0 =>
                /\ s.webpUpload = "none" /\ s.avifUpload = "none"
                /\ t.webpUpload = "pending" /\ t.avifUpload = "pending"
                /\ t.pc = "awaitDerived"]_vars

\* both derived writes are in flight and the handler waits for them
C15_Witness ==
    \E u \in Uploads :
        /\ up[u].pc = "awaitDerived"
        /\ up[u].webpUpload = "pending" /\ up[u].avifUpload = "pending"

\* C15, the transcoder has returned while the original write is in flight
C15_WitnessOverlap ==
    \E u \in Uploads :
        /\ up[u].pc = "awaitOriginal"
        /\ up[u].originalUpload = "pending" /\ up[u].compression = "ok"
\* C16: in every saved row the original location is set; the webp slot and
\* the avif slot are each empty, or the original location, or the location
\* allocated to that encoding of that image; and the recorded size of a
\* slot is 0 when the slot is empty or is a marker alias (the original
\* location while the source format is not that encoding).
C16_SlotShapes ==
    \A i \in images :
        /\ i.paths.original # <<>>
        /\ i.paths.original = <<i.id, "original">>
        /\ i.paths.webp \in {<<>>, i.paths.original, <<i.id, "webp">>}
        /\ i.paths.avif \in {<<>>, i.paths.original, <<i.id, "avif">>}
        /\ (i.paths.webp = <<>>
              \/ (i.paths.webp = i.paths.original /\ i.format # "webp"))
              => i.sizes.webp = 0
        /\ (i.paths.avif = <<>>
              \/ (i.paths.avif = i.paths.original /\ i.format # "avif"))
              => i.sizes.avif = 0

\* a saved row with a marker alias of size 0 beside a written variant
C16_Witness ==
    \E i \in images :
        /\ i.format = "jpeg"
        /\ i.paths.webp = i.paths.original /\ i.sizes.webp = 0
        /\ i.paths.avif = <<i.id, "avif">> /\ i.sizes.avif > 0

\* C16, a saved row of a skipped upload: an empty slot beside a marker alias
C16_WitnessSkipped ==
    \E i \in images :
        /\ i.format = "png" /\ i.sizes.original > 10 * 1024 * 1024
        /\ i.paths.webp = <<>> /\ i.sizes.webp = 0
        /\ i.paths.avif = i.paths.original /\ i.sizes.avif = 0
\* C18: retrieval always selects with a defined orientation filter: the
\* orientation parameter when it is landscape or portrait, whatever the
\* user agent; otherwise portrait for a mobile user agent and landscape for
\* any other; and a selected row has the orientation of the filter.
C18_OrientationFilter ==
    (rnd.pc = "selected" \/ (rnd.pc = "done" /\ rnd.status = 404 /\ rnd.image = {})) =>
        /\ rnd.orientation \in {"landscape", "portrait"}
        /\ rnd.orientationParam \in {"landscape", "portrait"} =>
              rnd.orientation = rnd.orientationParam
        /\ rnd.orientationParam \notin {"landscape", "portrait"} /\ rnd.mobile =>
              rnd.orientation = "portrait"
        /\ rnd.orientationParam \notin {"landscape", "portrait"} /\ ~rnd.mobile =>
              rnd.orientation = "landscape"
        /\ \A i \in rnd.image : i.orientation = rnd.orientation

\* a mobile user agent asks for landscape and a landscape row is selected
C18_Witness ==
    /\ rnd.pc = "selected"
    /\ rnd.orientationParam = "landscape" /\ rnd.mobile
    /\ \E i \in rnd.image : i.orientation = "landscape"

\* C18, an orientation parameter that is neither value leaves the choice to
\* the user agent
C18_WitnessDeviceHint ==
    /\ rnd.pc = "selected"
    /\ rnd.orientationParam = "square" /\ rnd.mobile
    /\ \E i \in rnd.image : i.orientation = "portrait"
\* C19: the cache invalidation is started only in the step that answers
\* success, after the metadata save succeeded; the answer does not wait
\* for it and never changes afterwards, whether the invalidation is still
\* running, has finished or has failed; an upload that was rejected or
\* that failed up to and including the metadata save starts none.
C19_InvalidationAfterSave ==
    [][\A u \in Uploads :
          LET s == up[u]
              t == up'[u] IN
          /\ t.invalidation # "none" =>
                /\ t.saveImage = "ok" /\ t.response = "success"
                /\ \E i \in {t.imageMetadata} : i.id = u
          /\ s.invalidation = "none" /\ t.invalidation # "none" =>
                /\ s.pc = "awaitSave" /\ s.response = "none"
                /\ t.invalidation = "started" /\ t.pc = "done"
          /\ s.response # "none" => t.response = s.response
          /\ t.response \in {"failed", "rejected"} => t.invalidation = "none"
          /\ t.saveImage \in {"none", "pending", "failed"} => t.invalidation = "none"
          /\ t.pc = "done" /\ t.saveImage = "ok" =>
                t.response = "success" /\ t.invalidation # "none"]_vars

\* the invalidation failed after the upload had answered success
C19_Witness ==
    \E u \in Uploads :
        /\ up[u].invalidation = "failed"
        /\ up[u].response = "success" /\ up[u].saveImage = "ok"
        /\ up[u].imageMetadata \in images

\* C19, the upload has answered while the invalidation is still running
C19_WitnessDelayed ==
    \E u \in Uploads :
        /\ up[u].invalidation = "started"
        /\ up[u].response = "success" /\ up[u].pc = "done"

\* C19, the metadata save failed and no invalidation was started
C19_WitnessSaveFailed ==
    \E u \in Uploads :
        /\ up[u].saveImage = "failed" /\ up[u].response = "failed"
        /\ up[u].invalidation = "none"
\* C20: for a jpeg or png source, transcoded or skipped, an encoding the
\* request does not want is never written (no write is issued for it and
\* no object appears at its allocated location, whatever the transcoder
\* returned) and the saved row has that slot empty with size 0.
C20_UnwantedStaysEmpty ==
    \A u \in Uploads :
        LET s == up[u] IN
        s.pc # "idle" /\ s.response # "rejected" /\ s.format \in {"jpeg", "png"} =>
            /\ ~s.generateWebp =>
                  /\ s.webpUpload = "none"
                  /\ <<u, "webp">> \notin objects
                  /\ s.saveImage # "none" =>
                        /\ s.imageMetadata.paths.webp = <<>>
                        /\ s.imageMetadata.sizes.webp = 0
            /\ ~s.generateAvif =>
                  /\ s.avifUpload = "none"
                  /\ <<u, "avif">> \notin objects
                  /\ s.saveImage # "none" =>
                        /\ s.imageMetadata.paths.avif = <<>>
                        /\ s.imageMetadata.sizes.avif = 0

\* the transcoder returned webp bytes nobody wanted: the row is saved with
\* an empty webp slot beside the written avif variant
C20_Witness ==
    \E u \in Uploads :
        /\ up[u].format = "jpeg" /\ ~up[u].generateWebp /\ up[u].generateAvif
        /\ up[u].compression = "ok" /\ up[u].compressionResult.webp # 0
        /\ up[u].imageMetadata \in images
        /\ up[u].imageMetadata.paths.webp = <<>>
        /\ up[u].imageMetadata.sizes.webp = 0
        /\ up[u].imageMetadata.paths.avif = <<u, "avif">>
        /\ <<u, "webp">> \notin objects /\ <<u, "avif">> \in objects

\* C20, the skipped path: a large png that wants neither encoding
C20_WitnessSkipped ==
    \E u \in Uploads :
        /\ up[u].format = "png" /\ up[u].compression = "none"
        /\ ~up[u].generateWebp /\ ~up[u].generateAvif
        /\ up[u].saveImage = "ok" /\ up[u].imageMetadata \in images
        /\ up[u].imageMetadata.paths.webp = <<>>
        /\ up[u].imageMetadata.paths.avif = <<>>
====
